---- MODULE Spec2Model ----
(***************************************************************************)
(* modules/instagram.py: the shortcode codec, the candidate selection      *)
(* helper, the cache-backed aggregator client (Datalama) and the direct    *)
(* client (Instagram) with their response parsers.                         *)
(*                                                                         *)
(* Strings that the code indexes or slices (shortcodes, the alphabet) are  *)
(* sequences of one-character strings; formatted messages are sequences of *)
(* their pieces.  A call that raises yields [raised |-> <exception>, ...]. *)
(***************************************************************************)
EXTENDS Integers, Sequences, FiniteSets, TLC

VARIABLES
  redis,     \* bot.redis: cache_key -> [value, ex] of the live entries
  pc,        \* position of the operation in flight
  call,      \* the operation in flight: its name, arguments and locals
  result,    \* what the last finished operation returned or raised
  http_log,  \* the outbound HTTP GETs of the last operation, in order
  served     \* history: request -> what its calls returned and the GETs they
             \* issued, since a call last succeeded with the entry unexpired

vars == <<redis, pc, call, result, http_log, served>>

None == "None"

\* no operation has finished yet
NoResult == [op |-> "none"]

\* return value / raise exc(message)
Return(value) == [raised |-> "", value |-> value]
Raise(exc, message) == [raised |-> exc, value |-> message]

(***************************************************************************)
(* InstagramIdCodec                                                        *)
(***************************************************************************)
ENCODING_CHARS ==
  << "A", "B", "C", "D", "E", "F", "G", "H", "I", "J", "K", "L", "M", "N", "O", "P",
     "Q", "R", "S", "T", "U", "V", "W", "X", "Y", "Z", "a", "b", "c", "d", "e", "f",
     "g", "h", "i", "j", "k", "l", "m", "n", "o", "p", "q", "r", "s", "t", "u", "v",
     "w", "x", "y", "z", "0", "1", "2", "3", "4", "5", "6", "7", "8", "9", "-", "_" >>

\* alphabet.index(char) raises ValueError when char is not in alphabet
HasChar(alphabet, char) == \E i \in 1..Len(alphabet) : alphabet[i] = char

\* alphabet.index(char): the lowest 0-based index of char
IndexOf(alphabet, char) ==
  (CHOOSE i \in 1..Len(alphabet) :
      /\ alphabet[i] = char
      /\ \A j \in 1..(i - 1) : alphabet[j] # char) - 1

\* arr.reverse()
reverse(arr) == [i \in 1..Len(arr) |-> arr[Len(arr) + 1 - i]]

\* while num: rem = num % base; num //= base; arr.append(alphabet[rem])
RECURSIVE encode_loop(_, _, _)
encode_loop(num, arr, alphabet) ==
  IF num = 0 THEN arr
  ELSE encode_loop(num \div Len(alphabet),
                   Append(arr, alphabet[(num % Len(alphabet)) + 1]),
                   alphabet)

encode_noreverse(num, alphabet) ==
  IF num = 0 THEN <<alphabet[1]>> ELSE encode_loop(num, <<>>, alphabet)

encode(num, alphabet) ==
  IF num = 0 THEN <<alphabet[1]>>
  ELSE reverse(encode_loop(num, <<>>, alphabet))

\* index * base**power; a zero digit contributes 0 whatever the power, and
\* no power is taken for it (base**power of a leading "A" exceeds 32 bits)
digit_value(index, base, power) ==
  IF index = 0 THEN 0 ELSE index * (base ^ power)

\* for char in shortcode: power = strlen - (idx + 1); num += ...; idx += 1
RECURSIVE decode_loop(_, _, _, _)
decode_loop(shortcode, idx, num, alphabet) ==
  IF idx = Len(shortcode) THEN Return(num)
  ELSE LET char  == shortcode[idx + 1]
           power == Len(shortcode) - (idx + 1)
       IN  IF ~HasChar(alphabet, char)
           THEN Raise("ValueError", <<"substring not found">>)
           ELSE decode_loop(shortcode, idx + 1,
                            num + digit_value(IndexOf(alphabet, char),
                                              Len(alphabet), power),
                            alphabet)

decode(shortcode, alphabet) == decode_loop(shortcode, 0, 0, alphabet)

(***************************************************************************)
(* get_best_candidate                                                      *)
(***************************************************************************)
\* key=lambda img: img["width"] * img["height"]
area(img) == img.width * img.height

\* one step of a stable descending sort: x goes after every element whose key
\* is not smaller, so equal keys keep their input order
insert_desc(sorted, x) ==
  LET n == Cardinality({i \in 1..Len(sorted) : area(sorted[i]) >= area(x)})
  IN  SubSeq(sorted, 1, n) \o <<x>> \o SubSeq(sorted, n + 1, Len(sorted))

RECURSIVE sort_from(_, _, _)
sort_from(candidates, i, acc) ==
  IF i > Len(candidates) THEN acc
  ELSE sort_from(candidates, i + 1, insert_desc(acc, candidates[i]))

\* an ascending stable sort read backwards: equal keys come out in reverse
sorted_reverse_unstable(candidates) ==
  LET asc(s, x) ==
        LET n == Cardinality({i \in 1..Len(s) : area(s[i]) <= area(x)})
        IN  SubSeq(s, 1, n) \o <<x>> \o SubSeq(s, n + 1, Len(s))
      f[i \in 0..Len(candidates)] ==
        IF i = 0 THEN <<>> ELSE asc(f[i - 1], candidates[i])
  IN  reverse(f[Len(candidates)])

\* sorted(candidates, key=area, reverse=True)
sorted_reverse(candidates) == sort_from(candidates, 1, <<>>)

\* og_width / og_height: None is 0 here (both are falsy in `if og_height and og_width`)
get_best_candidate(candidates, og_width, og_height) ==
  IF og_height # 0 /\ og_width # 0
  THEN LET match == {i \in 1..Len(candidates) :
                        /\ candidates[i].width = og_width
                        /\ candidates[i].height = og_height}
       IN  IF match = {} THEN Raise("StopIteration", <<>>)
           ELSE Return(candidates[CHOOSE i \in match : \A j \in match : i <= j].url)
  ELSE IF Len(candidates) = 0 THEN Raise("IndexError", <<"list index out of range">>)
  ELSE Return(sorted_reverse(candidates)[1].url)

(***************************************************************************)
(* The codec on its own: a number is encoded, the shortcode decoded.       *)
(***************************************************************************)
MaxNum == 4200

\* the numbers encoded: every one up to MaxNum, and some of four and five digits
Nums == (0..MaxNum) \cup {64 ^ 3, (64 ^ 3) + 1, (64 ^ 4) + 5, (64 ^ 5) - 1}

CodecInit ==
  /\ redis = << >>
  /\ served = << >>
  /\ http_log = << >>
  /\ result = NoResult
  /\ pc = "encode"
  /\ \E n \in Nums : call = [op |-> "codec", num |-> n, shortcode |-> << >>]

Encode ==
  /\ pc = "encode"
  /\ call' = [call EXCEPT !.shortcode = encode(call.num, ENCODING_CHARS)]
  /\ pc' = "decode"
  /\ UNCHANGED <<redis, result, http_log, served>>

Decode ==
  /\ pc = "decode"
  /\ result' = decode(call.shortcode, ENCODING_CHARS)
  /\ pc' = "decoded"
  /\ UNCHANGED <<redis, call, http_log, served>>

CodecNext == Encode \/ Decode

SpecCodec == CodecInit /\ [][CodecNext]_vars

\* C9: decode(encode(n)) = n for every n drawn; encode(0) is the first
\* alphabet character; the i-th character of encode(n) is the digit of weight
\* 64^(length - i), so the most significant digit comes first (and is not a
\* leading zero when n > 0).
C9_RoundTrip ==
  /\ pc \in {"decode", "decoded"} =>
       LET s == call.shortcode
           n == call.num
       IN  /\ Len(s) >= 1
           /\ n = 0 => s = <<ENCODING_CHARS[1]>>
           /\ n > 0 => s[1] # ENCODING_CHARS[1]
           /\ \A i \in 1..Len(s) :
                s[i] = ENCODING_CHARS[((n \div (64 ^ (Len(s) - i))) % 64) + 1]
  /\ pc = "decoded" => result = Return(call.num)

\* a number of three digits went through encode and decode
C9_Witness ==
  /\ pc = "decoded"
  /\ call.num > 64 * 64
  /\ Len(call.shortcode) = 3
  /\ call.shortcode[1] # call.shortcode[3]
  /\ result.raised = ""

(***************************************************************************)
(* get_best_candidate on its own.                                          *)
(***************************************************************************)
MaxCands == 3
MaxDim == 2

\* candidate lists: the url names the position, so that it tells which
\* candidate was picked
CandidateLists ==
  UNION {
    { [i \in 1..n |-> [width |-> d[i][1], height |-> d[i][2], url |-> <<"url", i>>]] :
        d \in [1..n -> (1..MaxDim) \X (1..MaxDim)] } :
    n \in 0..MaxCands }

\* (og_width, og_height): no target, a full target, half a target
Targets == {<<0, 0>>, <<1, 2>>, <<0, 2>>, <<2, 0>>}

CandInit ==
  /\ redis = << >>
  /\ served = << >>
  /\ http_log = << >>
  /\ result = NoResult
  /\ pc = "select"
  /\ \E c \in CandidateLists, t \in Targets :
       call = [op |-> "get_best_candidate", candidates |-> c,
               og_width |-> t[1], og_height |-> t[2]]

Select ==
  /\ pc = "select"
  /\ result' = get_best_candidate(call.candidates, call.og_width, call.og_height)
  /\ pc' = "selected"
  /\ UNCHANGED <<redis, call, http_log, served>>

CandNext == Select

SpecCandidates == CandInit /\ [][CandNext]_vars

NoTarget == ~(call.og_height # 0 /\ call.og_width # 0)

\* C10: without an exact target, on a non-empty list, the url returned is that
\* of a candidate of maximal width*height, and of the first such candidate in
\* input order.
C10_MaxAreaFirst ==
  (pc = "selected" /\ NoTarget /\ Len(call.candidates) > 0) =>
    /\ result.raised = ""
    /\ \E i \in 1..Len(call.candidates) :
         /\ result.value = call.candidates[i].url
         /\ \A j \in 1..Len(call.candidates) :
              area(call.candidates[j]) <= area(call.candidates[i])
         /\ \A j \in 1..(i - 1) :
              area(call.candidates[j]) < area(call.candidates[i])

\* two candidates share the maximal area, a smaller one comes first, and the
\* earlier of the two was returned
C10_Witness ==
  /\ pc = "selected"
  /\ NoTarget
  /\ Len(call.candidates) = 3
  /\ area(call.candidates[1]) < area(call.candidates[2])
  /\ area(call.candidates[2]) = area(call.candidates[3])
  /\ call.candidates[2].width # call.candidates[3].width
  /\ result = Return(call.candidates[2].url)

(***************************************************************************)
(* JSON and the HTTP response.  A JSON object is a function from its field *)
(* names to their values (a Python dict); JSON null is Python's None.      *)
(* A response is [status, json, data, text]: json tells whether            *)
(* response.json() yields data or raises aiohttp.ContentTypeError.         *)
(***************************************************************************)
\* d.get(key): None when the key is missing
dict_get(d, key) == IF key \in DOMAIN d THEN d[key] ELSE None

\* {response.status} inside an f-string: the number in decimal.  The other
\* values the messages format are strings already, None reading "None".
str(status) == ToString(status)

\* the order in which the fields of an object are written out
FieldOrder ==
  <<"exc_type", "detail", "payload", "user", "media_type", "resources",
    "image_versions", "video_versions", "taken_at_ts", "video_url",
    "thumbnail_url", "taken_at", "items">>

\* orjson.dumps(data): the object's text, as "{", one <<name, value>> per
\* field, "}"; never empty
dumps(data) ==
  LET present == SelectSeq(FieldOrder, LAMBDA f : f \in DOMAIN data)
  IN  <<"{">> \o [i \in 1..Len(present) |-> <<present[i], data[present[i]]>>] \o <<"}">>

\* a parser that leaves out the fields whose value is null
loads_dropping_null(bytes) ==
  LET pairs == SubSeq(bytes, 2, Len(bytes) - 1)
      keep  == {i \in 1..Len(pairs) : pairs[i][2] # None}
  IN  [f \in {pairs[i][1] : i \in keep} |->
         pairs[CHOOSE i \in keep : pairs[i][1] = f][2]]

\* orjson.loads(bytes)
loads(bytes) ==
  LET pairs == SubSeq(bytes, 2, Len(bytes) - 1)
  IN  [f \in {pairs[i][1] : i \in 1..Len(pairs)} |->
         pairs[CHOOSE i \in 1..Len(pairs) : pairs[i][1] = f][2]]

\* response.ok
ok(response) == response.status < 400

(***************************************************************************)
(* Datalama                                                                *)
(***************************************************************************)
BASE_URL == "https://api.datalama.io"

\* urlencode(params): one name=value per parameter, in the dict's order
urlencode(params) == [i \in 1..Len(params) |-> <<params[i][1], "=", params[i][2]>>]

\* cache_key = self.BASE_URL + endpoint + "?" + urlencode(params)
cache_key(endpoint, params) == <<BASE_URL, endpoint, "?", urlencode(params)>>

\* await self.bot.redis.get(cache_key) is truthy: an entry, and not b""
cached(cache, key) == key \in DOMAIN cache /\ Len(cache[key].value) > 0

\* await self.bot.redis.set(key, value, ex)
redis_set(cache, key, value, ex) ==
  [k \in DOMAIN cache \cup {key} |->
     IF k = key THEN [value |-> value, ex |-> ex] ELSE cache[k]]

\* the except branch stores too: a cache written whatever the response
api_request_always_stores(endpoint, params, cache, response) ==
  LET key == cache_key(endpoint, params)
      url == <<BASE_URL, endpoint, urlencode(params)>>
  IN  IF cached(cache, key)
      THEN [ret |-> Return(loads(cache[key].value)), redis |-> cache, http |-> << >>]
      ELSE [ret   |-> IF response.json /\ ok(response)
                      THEN Return(response.data)
                      ELSE Raise("InstagramError", <<str(response.status)>>),
            redis |-> redis_set(cache, key,
                                IF response.json THEN dumps(response.data)
                                ELSE <<response.text>>, 86400),
            http  |-> <<url>>]

\* the transport branch without response.raise_for_status()
api_request_no_raise_for_status(endpoint, params, cache, response) ==
  LET key == cache_key(endpoint, params)
      url == <<BASE_URL, endpoint, urlencode(params)>>
      data == response.data
  IN  IF cached(cache, key)
      THEN [ret |-> Return(loads(cache[key].value)), redis |-> cache, http |-> << >>]
      ELSE IF ~response.json
      THEN [ret |-> Raise("InstagramError",
                          <<str(response.status), " | ", response.text>>),
            redis |-> cache, http |-> <<url>>]
      ELSE IF \/ ~ok(response)
              \/ dict_get(data, "exc_type") # None
              \/ dict_get(data, "detail") # None
      THEN [ret |-> Raise("InstagramError",
                          <<"ERROR ", str(response.status), " | ",
                            dict_get(data, "exc_type"), " | ",
                            dict_get(data, "detail")>>),
            redis |-> cache, http |-> <<url>>]
      ELSE [ret |-> Return(data),
            redis |-> redis_set(cache, key, dumps(data), 86400),
            http |-> <<url>>]

\* Datalama.api_request(endpoint, params) against the cache `cache`, `response`
\* being what the aggregator answers if it is asked: what the call returns or
\* raises, the cache after it and the GETs it issued
api_request(endpoint, params, cache, response) ==
  LET key == cache_key(endpoint, params)
      url == <<BASE_URL, endpoint, urlencode(params)>>
      data == response.data
  IN  IF cached(cache, key)
      THEN [ret |-> Return(loads(cache[key].value)), redis |-> cache, http |-> << >>]
      ELSE IF ~response.json
      THEN \* except aiohttp.ContentTypeError: raise_for_status(), then the text
           [ret |-> IF response.status >= 400
                    THEN Raise("ClientResponseError", <<str(response.status)>>)
                    ELSE Raise("InstagramError",
                               <<str(response.status), " | ", response.text>>),
            redis |-> cache, http |-> <<url>>]
      ELSE IF \/ ~ok(response)
              \/ dict_get(data, "exc_type") # None
              \/ dict_get(data, "detail") # None
      THEN [ret |-> Raise("InstagramError",
                          <<"ERROR ", str(response.status), " | ",
                            dict_get(data, "exc_type"), " | ",
                            dict_get(data, "detail")>>),
            redis |-> cache, http |-> <<url>>]
      ELSE [ret |-> Return(data),
            redis |-> redis_set(cache, key, dumps(data), 86400),
            http |-> <<url>>]

(***************************************************************************)
(* The aggregator client on its own: calls of api_request one after the    *)
(* other, and cache entries expiring in between.                           *)
(***************************************************************************)
MaxPayload == 2

Statuses == {200, 304, 404}

NoFields == [f \in {} |-> None]

\* exc_type / detail: missing, null, or set
FieldChoices(name, value) == {NoFields, [f \in {name} |-> None], [f \in {name} |-> value]}

\* the JSON objects the aggregator answers with: the empty object, a payload
\* alone, and exc_type and detail missing, null or set, with a payload or alone
CacheData ==
  {NoFields}
  \cup {[payload |-> ToString(i)] : i \in 1..MaxPayload}
  \cup {[payload |-> "1"] @@ e @@ d :
          e \in FieldChoices("exc_type", "ClientError"),
          d \in FieldChoices("detail", "Media not found")}
  \cup {[detail |-> "Media not found"], [exc_type |-> "ClientError", detail |-> None]}

JsonResponses(datas) ==
  {[status |-> s, json |-> TRUE, data |-> d, text |-> ""] : s \in Statuses, d \in datas}

TextResponses ==
  {[status |-> s, json |-> FALSE, data |-> NoFields, text |-> "<html>"] : s \in Statuses}

CacheResponses == JsonResponses(CacheData) \cup TextResponses

\* (endpoint, params) of the calls made
Requests ==
  { <<"/v1/media/by/code", << <<"code", "CuZ1">> >> >>,
    <<"/v1/media/by/code", << <<"code", "CuZ2">> >> >>,
    <<"/a1/media/by/code", << <<"code", "CuZ1">> >> >> }

CacheInit ==
  /\ redis = << >>
  /\ served = << >>
  /\ http_log = << >>
  /\ result = NoResult
  /\ pc = "idle"
  /\ call = None

\* the history kept for a request: the JSON returned and the GETs issued since
\* a call of it last succeeded without the entry expiring in between
Note(hist, req, r) ==
  IF r.ret.raised # ""
  THEN hist
  ELSE [q \in DOMAIN hist \cup {req} |->
          IF q # req THEN hist[q]
          ELSE [data |-> r.ret.value,
                gets |-> Len(r.http) + (IF req \in DOMAIN hist THEN hist[req].gets ELSE 0)]]

ApiRequest(endpoint, params, response) ==
  LET r == api_request(endpoint, params, redis, response)
      req == <<endpoint, params>>
  IN  /\ pc = "idle"
      /\ redis' = r.redis
      /\ http_log' = r.http
      /\ result' = [op |-> "api_request", endpoint |-> endpoint, params |-> params,
                    response |-> IF r.http = << >> THEN << >> ELSE <<response>>,
                    ret |-> r.ret,
                    prior |-> IF req \in DOMAIN served THEN <<served[req].data>> ELSE << >>]
      /\ served' = Note(served, req, r)
      /\ UNCHANGED <<pc, call>>

\* the entry of `key` reaches the end of its 86400 seconds
Expire(key) ==
  /\ key \in DOMAIN redis
  /\ redis' = [k \in DOMAIN redis \ {key} |-> redis[k]]
  /\ served' = [q \in {q \in DOMAIN served : cache_key(q[1], q[2]) # key} |-> served[q]]
  /\ UNCHANGED <<pc, call, result, http_log>>

\* the aggregator answers only when it is asked
ApiStep ==
  \E req \in Requests :
    IF cached(redis, cache_key(req[1], req[2]))
    THEN ApiRequest(req[1], req[2], CHOOSE response \in TextResponses : TRUE)
    ELSE \E response \in CacheResponses : ApiRequest(req[1], req[2], response)

ExpireStep == \E key \in DOMAIN redis : Expire(key)

CacheNext == ApiStep \/ ExpireStep

SpecCache == CacheInit /\ [][CacheNext]_vars

IsApiResult == result.op = "api_request"

\* C1: a call of api_request that follows a successful call with the same
\* endpoint and params, the entry not having expired in between, issues no
\* HTTP GET and returns the JSON the earlier call returned; in total exactly
\* one GET was issued for the request.
C1_SecondCallServedFromCache ==
  IsApiResult =>
    /\ result.prior # << >> =>
         /\ http_log = << >>
         /\ result.ret = Return(result.prior[1])
    /\ \A req \in DOMAIN served : served[req].gets = 1

\* a second call came back from the cache while another request's entry was
\* in the cache too
C1_Witness ==
  /\ IsApiResult
  /\ result.prior # << >>
  /\ result.ret.raised = ""
  /\ "payload" \in DOMAIN result.ret.value
  /\ http_log = << >>
  /\ Cardinality(DOMAIN redis) >= 2
  /\ \E k1, k2 \in DOMAIN redis : redis[k1].value # redis[k2].value

\* a step that is no expiry: no entry leaves the cache
CallStep == DOMAIN redis \subseteq DOMAIN redis'

IsMediaTypeValue(value) == value \in {1, 2, 8, 0}

\* MediaType(value), for a value of the enum
MediaType(value) ==
  CASE value = 1 -> "PHOTO"
    [] value = 2 -> "VIDEO"
    [] value = 8 -> "ALBUM"
    [] value = 0 -> "NONE"

NotAMediaType(value) == Raise("ValueError", <<ToString(value), " is not a valid MediaType">>)

IgMedia(media_type, url) == [media_type |-> media_type, url |-> url]

IgUser(id, username, avatar_url) == [id |-> id, username |-> username, avatar_url |-> avatar_url]

IgPost(user, media, timestamp) == [user |-> user, media |-> media, timestamp |-> timestamp]

\* resource[key] of a dict that may lack the key
KeyError(key) == Raise("KeyError", <<key>>)

(***************************************************************************)
(* Datalama: the parsers                                                   *)
(***************************************************************************)
\* Datalama.parse_user: user["username"] or f"instagram_user_{user['pk']}"
parse_user(data) ==
  LET user == data.user
  IN  IgUser(user.pk,
             IF user.username # "" THEN user.username
             ELSE "instagram_user_" \o ToString(user.pk),
             user.profile_pic_url)

\* IgMedia(kind, get_best_candidate(resource[field])) appended to an empty list
one_media(resource, kind, field) ==
  IF field \notin DOMAIN resource THEN KeyError(field)
  ELSE LET best == get_best_candidate(resource[field], 0, 0)
       IN  IF best.raised # "" THEN best ELSE Return(<<IgMedia(kind, best.value)>>)

RECURSIVE parse_resource_v1(_)
RECURSIVE parse_album_v1(_, _, _)

\* for album_resource in resources: media += self.parse_resource_v1(album_resource)
parse_album_v1(resources, i, media) ==
  IF i > Len(resources) THEN Return(media)
  ELSE LET r == parse_resource_v1(resources[i])
       IN  IF r.raised # "" THEN r
           ELSE parse_album_v1(resources, i + 1, media \o r.value)

\* Datalama.parse_resource_v1
parse_resource_v1(resource) ==
  IF ~IsMediaTypeValue(resource.media_type) THEN NotAMediaType(resource.media_type)
  ELSE LET kind == MediaType(resource.media_type)
       IN  CASE kind = "ALBUM" ->
                  IF "resources" \notin DOMAIN resource THEN KeyError("resources")
                  ELSE parse_album_v1(resource.resources, 1, << >>)
             [] kind = "VIDEO" -> one_media(resource, "VIDEO", "video_versions")
             [] kind = "PHOTO" -> one_media(resource, "PHOTO", "image_versions")
             [] OTHER -> Raise("TypeError",
                               <<"Unknown IG media type ", ToString(resource.media_type)>>)

\* Datalama.parse_resource_a1: the items of an album go through the v1 rule
parse_resource_a1(resource) ==
  IF ~IsMediaTypeValue(resource.media_type) THEN NotAMediaType(resource.media_type)
  ELSE LET kind == MediaType(resource.media_type)
       IN  CASE kind = "ALBUM" -> parse_album_v1(resource.carousel_media, 1, << >>)
             [] kind = "VIDEO" -> one_media(resource, "VIDEO", "video_versions")
             [] kind = "PHOTO" ->
                  LET best == get_best_candidate(resource.image_versions2.candidates, 0, 0)
                  IN  IF best.raised # "" THEN best
                      ELSE Return(<<IgMedia("PHOTO", best.value)>>)
             [] OTHER -> Raise("TypeError",
                               <<"Unknown IG media type ", ToString(resource.media_type)>>)

\* int(arrow.get(data["taken_at"]).timestamp()), for the dates the stories carry
arrow_timestamp(taken_at) ==
  CASE taken_at = "2023-11-14T22:13:20+00:00" -> 1700000000
    [] taken_at = "2023-11-14T22:13:21+00:00" -> 1700000001

\* IgPost(user, media, timestamp) once the media list has been parsed
post_of(user, media, timestamp) ==
  IF media.raised # "" THEN media ELSE Return(IgPost(user, media.value, timestamp))

\* get_post_v1 after the request
post_v1(data) == post_of(parse_user(data), parse_resource_v1(data), data.taken_at_ts)

\* Datalama.get_post_v1
get_post_v1(shortcode, cache, response) ==
  LET r == api_request("/v1/media/by/code", << <<"code", shortcode>> >>, cache, response)
  IN  IF r.ret.raised # "" THEN r ELSE [r EXCEPT !.ret = post_v1(r.ret.value)]

\* get_story_v1 after the request
story_v1(data) ==
  IF ~IsMediaTypeValue(data.media_type) THEN NotAMediaType(data.media_type)
  ELSE LET kind == MediaType(data.media_type)
           media ==
             CASE kind = "VIDEO" -> Return(<<IgMedia("VIDEO", data.video_url)>>)
               [] kind = "PHOTO" -> Return(<<IgMedia("PHOTO", data.thumbnail_url)>>)
               [] OTHER -> Raise("TypeError",
                                 <<"Unknown IG media type ", ToString(data.media_type)>>)
       IN  IF media.raised # "" THEN media
           ELSE Return(IgPost(parse_user(data), media.value,
                              arrow_timestamp(data.taken_at)))

\* Datalama.get_story_v1
get_story_v1(story_pk, cache, response) ==
  LET r == api_request("/v1/story/by/id", << <<"id", story_pk>> >>, cache, response)
  IN  IF r.ret.raised # "" THEN r ELSE [r EXCEPT !.ret = story_v1(r.ret.value)]

\* get_post_a1 after the request
post_a1(data) ==
  IF Len(data.items) = 0 THEN Raise("IndexError", <<"list index out of range">>)
  ELSE LET post == data.items[1]
       IN  post_of(parse_user(post), parse_resource_a1(post), post.taken_at)

\* Datalama.get_post_a1
get_post_a1(shortcode, cache, response) ==
  LET r == api_request("/a1/media/by/code", << <<"code", shortcode>> >>, cache, response)
  IN  IF r.ret.raised # "" THEN r ELSE [r EXCEPT !.ret = post_a1(r.ret.value)]

(***************************************************************************)
(* Instagram: the direct client                                            *)
(***************************************************************************)
\* Instagram.parse_media
parse_media(resource) ==
  IF ~IsMediaTypeValue(resource.media_type) THEN NotAMediaType(resource.media_type)
  ELSE LET resource_media_type == MediaType(resource.media_type)
       IN  IF resource_media_type = "PHOTO"
           THEN IF Len(resource.image_versions2.candidates) = 0
                THEN Raise("IndexError", <<"list index out of range">>)
                ELSE Return(IgMedia(resource_media_type,
                                    resource.image_versions2.candidates[1].url))
           ELSE IF resource_media_type = "VIDEO"
           THEN IF Len(resource.video_versions) = 0
                THEN Raise("IndexError", <<"list index out of range">>)
                ELSE Return(IgMedia(resource_media_type, resource.video_versions[1].url))
           ELSE Return(IgMedia(resource_media_type, ""))

\* the message of the graphql error without the "[HTTP status] " in front
graphql_request_plain_message(shortcode, response) ==
  LET data == response.data
  IN  [http |-> << <<"https://www.instagram.com/graphql/query/", shortcode>> >>,
       ret  |-> IF ~response.json THEN Raise("ExpiredCookie", << >>)
                ELSE IF "status" \notin DOMAIN data THEN KeyError("status")
                ELSE IF data.status # "ok"
                THEN Raise("InstagramError", <<dict_get(data, "message")>>)
                ELSE Return(data)]

\* Instagram.graphql_request: what it returns or raises, and the GET it issues
graphql_request(shortcode, response) ==
  LET data == response.data
  IN  [http |-> << <<"https://www.instagram.com/graphql/query/", shortcode>> >>,
       ret  |-> IF ~response.json THEN Raise("ExpiredCookie", << >>)
                ELSE IF "status" \notin DOMAIN data THEN KeyError("status")
                ELSE IF data.status # "ok"
                THEN Raise("InstagramError",
                           <<"[HTTP ", str(response.status), "] ", dict_get(data, "message")>>)
                ELSE Return(data)]

\* Instagram.v1_api_request
v1_api_request(endpoint, params, response) ==
  LET data == response.data
  IN  [http |-> << <<"https://i.instagram.com/api/v1/", endpoint, params>> >>,
       ret  |-> IF ~response.json THEN Raise("ExpiredCookie", << >>)
                ELSE IF "status" \notin DOMAIN data THEN KeyError("status")
                ELSE IF data.status # "ok"
                THEN Raise("InstagramError", <<dict_get(data, "message")>>)
                ELSE Return(data)]

\* get_user after the request
user_of(data) ==
  LET user == data.data.user
  IN  Return(IgUser(user.id, user.username, user.profile_pic_url))

\* Instagram.get_user
get_user(username, response) ==
  LET r == v1_api_request(<<"users/web_profile_info/">>, << <<"username", username>> >>,
                          response)
  IN  IF r.ret.raised # "" THEN r ELSE [r EXCEPT !.ret = user_of(r.ret.value)]

\* a filter that keeps the last match
last_story(stories, story_pk) ==
  LET match == {i \in 1..Len(stories) : stories[i].pk = story_pk}
  IN  IF match = {} THEN 0 ELSE CHOOSE i \in match : \A j \in match : i >= j

\* the first index of stories whose pk is story_pk, 0 when there is none:
\* next(filter(lambda x: x["pk"] == story_pk, stories))
first_story(stories, story_pk) ==
  LET match == {i \in 1..Len(stories) : stories[i].pk = story_pk}
  IN  IF match = {} THEN 0 ELSE CHOOSE i \in match : \A j \in match : i <= j

\* get_story after its second request
story_of(user, story_pk, data) ==
  IF user.id \notin DOMAIN data.reels THEN KeyError(user.id)
  ELSE LET stories == data.reels[user.id].items
           i == first_story(stories, story_pk)
       IN  IF i = 0 THEN Raise("ExpiredStory", << >>)
           ELSE LET media == parse_media(stories[i])
                IN  IF media.raised # "" THEN media
                    ELSE Return(IgPost(user, <<media.value>>, stories[i].taken_at))

\* Instagram.get_story from its second request on, `user` being what get_user
\* returned
get_story_reels(user, story_pk, response) ==
  LET r == v1_api_request(<<"feed/reels_media/">>, << <<"reel_ids", user.id>> >>, response)
  IN  IF r.ret.raised # "" THEN r
      ELSE [r EXCEPT !.ret = story_of(user, story_pk, r.ret.value)]

\* for resource in resources: media.append(self.parse_media(resource))
RECURSIVE parse_all(_, _, _)
parse_all(resources, i, media) ==
  IF i > Len(resources) THEN Return(media)
  ELSE LET m == parse_media(resources[i])
       IN  IF m.raised # "" THEN m
           ELSE parse_all(resources, i + 1, Append(media, m.value))

\* shortcode[:n]
slice_to(shortcode, n) == SubSeq(shortcode, 1, IF Len(shortcode) < n THEN Len(shortcode) ELSE n)

\* get_post after the request
post_of_info(body) ==
  IF Len(body.items) = 0 THEN Raise("IndexError", <<"list index out of range">>)
  ELSE LET data == body.items[1]
       IN  IF ~IsMediaTypeValue(data.media_type) THEN NotAMediaType(data.media_type)
           ELSE LET resources == IF MediaType(data.media_type) = "ALBUM"
                                 THEN data.carousel_media ELSE <<data>>
                    media == parse_all(resources, 1, << >>)
                IN  IF media.raised # "" THEN media
                    ELSE Return(IgPost(IgUser(data.user.pk, data.user.username,
                                              data.user.profile_pic_url),
                                       media.value, data.taken_at))

\* Instagram.get_post from its request on, real_media_id being decoded
get_post_info(real_media_id, response) ==
  LET r == v1_api_request(<<"media/", real_media_id, "/info/">>, << >>, response)
  IN  IF r.ret.raised # "" THEN r ELSE [r EXCEPT !.ret = post_of_info(r.ret.value)]

\* the whole shortcode is decoded
get_post_whole_shortcode(shortcode, response) ==
  LET real_media_id == decode(shortcode, ENCODING_CHARS)
  IN  IF real_media_id.raised = "ValueError"
      THEN [http |-> << >>,
            ret |-> Raise("InstagramError", <<"Not a valid Instagram link">>)]
      ELSE get_post_info(real_media_id.value, response)

\* Instagram.get_post
get_post(shortcode, response) ==
  LET real_media_id == decode(slice_to(shortcode, 11), ENCODING_CHARS)
  IN  IF real_media_id.raised = "ValueError"
      THEN [http |-> << >>,
            ret |-> Raise("InstagramError", <<"Not a valid Instagram link">>)]
      ELSE get_post_info(real_media_id.value, response)

\* to_mediatype
to_mediatype(typename) ==
  CASE typename = "GraphVideo" -> "VIDEO"
    [] typename = "GraphImage" -> "PHOTO"
    [] typename = "GraphSidecar" -> "ALBUM"
    [] OTHER -> "NONE"

\* display_resources[-1]["src"]
last_src(node) ==
  IF Len(node.display_resources) = 0
  THEN Raise("IndexError", <<"list index out of range">>)
  ELSE Return(node.display_resources[Len(node.display_resources)].src)

\* for node in data["edge_sidecar_to_children"]["edges"]: ... media.append(...)
RECURSIVE graphql_children(_, _, _)
graphql_children(edges, i, media) ==
  IF i > Len(edges) THEN Return(media)
  ELSE LET node == edges[i].node
           display_url == last_src(node)
       IN  IF display_url.raised # "" THEN display_url
           ELSE graphql_children(edges, i + 1,
                  Append(media, IgMedia(to_mediatype(node.__typename), display_url.value)))

\* get_post_graphql after the request
post_of_graphql(body) ==
  LET data == body.data.shortcode_media
      mediatype == to_mediatype(data.__typename)
      media == IF mediatype = "ALBUM"
               THEN graphql_children(data.edge_sidecar_to_children.edges, 1, << >>)
               ELSE LET display_url == last_src(data)
                    IN  IF display_url.raised # "" THEN display_url
                        ELSE Return(<<IgMedia(mediatype, display_url.value)>>)
  IN  IF media.raised # "" THEN media
      ELSE Return(IgPost(IgUser(data.owner.id, data.owner.username,
                                data.owner.profile_pic_url),
                         media.value, data.taken_at_timestamp))

\* Instagram.get_post_graphql
get_post_graphql(shortcode, response) ==
  LET r == graphql_request(shortcode, response)
  IN  IF r.ret.raised # "" THEN r ELSE [r EXCEPT !.ret = post_of_graphql(r.ret.value)]

(***************************************************************************)
(* The operations of the two clients, one call per run: Init draws the     *)
(* call and the cache it finds, the actions draw what the servers answer.  *)
(***************************************************************************)
MaxItems == 2
MaxBody == 2

SeqsUpTo(S, n) == UNION {[1..k -> S] : k \in 0..n}

\* candidate lists of a resource: none, or a small and a big rendition
CandChoices ==
  { << >>,
    << [width |-> 100, height |-> 100, url |-> "small"],
       [width |-> 200, height |-> 200, url |-> "big"] >> }

SomeCands == CHOOSE c \in CandChoices : Len(c) > 0

ApiUsers ==
  { [pk |-> 123, username |-> "miso", profile_pic_url |-> "pic"],
    [pk |-> 123, username |-> "", profile_pic_url |-> "pic"] }

SomeUser == CHOOSE u \in ApiUsers : u.username # ""

\* media objects as the v1 endpoints shape them: photo, video, media types 0
\* (NONE) and 5 (not of the enum), and albums of them
V1Leaves ==
  {[media_type |-> 1, image_versions |-> c] : c \in CandChoices}
  \cup {[media_type |-> 2, video_versions |-> c] : c \in CandChoices}
  \cup {[media_type |-> 0], [media_type |-> 5]}

V1Nested ==
  {[media_type |-> 8, resources |-> r] :
     r \in {<< >>, <<[media_type |-> 1, image_versions |-> SomeCands]>>}}

V1Albums ==
  {[media_type |-> 8, resources |-> r] : r \in SeqsUpTo(V1Leaves \cup V1Nested, MaxItems)}

V1Posts ==
  {m @@ [user |-> SomeUser, taken_at_ts |-> 1700000000] : m \in V1Leaves \cup V1Albums}
  \cup {[media_type |-> 1, image_versions |-> SomeCands, user |-> u,
         taken_at_ts |-> 1700000000] : u \in ApiUsers}

V1Stories ==
  {[media_type |-> t, video_url |-> "video", thumbnail_url |-> "thumb",
    taken_at |-> "2023-11-14T22:13:20+00:00", user |-> u] :
     t \in {0, 1, 2, 5, 8}, u \in ApiUsers}

\* media objects as the a1 endpoint shapes them; the items of an a1 album come
\* in either shape
A1Leaves ==
  {[media_type |-> 1, image_versions2 |-> [candidates |-> c]] : c \in CandChoices}
  \cup {[media_type |-> 2, video_versions |-> c] : c \in CandChoices}
  \cup {[media_type |-> 0], [media_type |-> 5]}

A1Albums ==
  {[media_type |-> 8, carousel_media |-> r] :
     r \in SeqsUpTo(V1Leaves \cup V1Nested \cup A1Leaves
                    \cup {[media_type |-> 8, carousel_media |-> << >>]}, MaxItems)}

A1Bodies ==
  {[items |-> << >>]}
  \cup {[items |-> <<m @@ [user |-> SomeUser, taken_at |-> 1700000000]>>] :
          m \in A1Leaves \cup A1Albums}

\* what the aggregator answers when it has no media to give
ApiFailures ==
  JsonResponses({[detail |-> "Media not found"],
                 [exc_type |-> "ClientError", detail |-> None]})
  \cup TextResponses

ApiResponses(bodies) ==
  {[status |-> 200, json |-> TRUE, data |-> d, text |-> ""] : d \in bodies} \cup ApiFailures

\* the cache an operation of the aggregator client finds: empty, or holding
\* what an earlier call of it stored
Primed(endpoint, params, bodies) ==
  {<< >>} \cup
  {redis_set(<< >>, cache_key(endpoint, params), dumps(d), 86400) : d \in bodies}

\* the direct client: what Instagram answers when it refuses
DirectFailures ==
  {[status |-> s, json |-> TRUE, data |-> d, text |-> ""] :
     s \in {200, 400},
     d \in {[status |-> "fail", message |-> "checkpoint_required"],
            [status |-> "fail"],
            [message |-> "Sorry, something went wrong"]}}
  \cup {[status |-> 200, json |-> FALSE, data |-> NoFields, text |-> "<html>"]}

DirectResponses(bodies) ==
  {[status |-> 200, json |-> TRUE, data |-> [status |-> "ok"] @@ d, text |-> ""] :
     d \in bodies}
  \cup DirectFailures

WebUser == [id |-> "173560420", username |-> "miso", profile_pic_url |-> "pic"]

ProfileBodies == {[data |-> [user |-> WebUser]]}

\* the items of a reel: photos, videos and items of media type 0, under two
\* pks; taken_at tells the items apart
StoryKinds ==
  {[pk |-> k] @@ m :
     k \in {"3100", "3200"},
     m \in {[media_type |-> 1, image_versions2 |-> [candidates |-> SomeCands]],
            [media_type |-> 2, video_versions |-> SomeCands],
            [media_type |-> 0]}}

StoryLists ==
  {[i \in DOMAIN s |-> s[i] @@ [taken_at |-> 1700000000 + i]] :
     s \in SeqsUpTo(StoryKinds, MaxItems)}

ReelBodies ==
  {[reels |-> NoFields]}
  \cup {[reels |-> [u \in {WebUser.id} |-> [items |-> s]]] : s \in StoryLists}

\* the media/<id>/info/ endpoint
InfoLeaves ==
  {[media_type |-> 1, image_versions2 |-> [candidates |-> c]] : c \in CandChoices}
  \cup {[media_type |-> 2, video_versions |-> c] : c \in CandChoices}
  \cup {[media_type |-> 0], [media_type |-> 5]}

InfoAlbums ==
  {[media_type |-> 8, carousel_media |-> r] :
     r \in SeqsUpTo(InfoLeaves \cup {[media_type |-> 8]}, MaxItems)}

InfoBodies ==
  {[items |-> << >>]}
  \cup {[items |-> <<m @@ [user |-> [pk |-> 123, username |-> "miso",
                                     profile_pic_url |-> "pic"],
                           taken_at |-> 1700000000]>>] :
          m \in InfoLeaves \cup InfoAlbums}

\* the GraphQL endpoint
DisplayChoices == {<< >>, <<[src |-> "640.jpg"], [src |-> "1080.jpg"]>>}

Typenames == {"GraphImage", "GraphVideo", "GraphSidecar", "GraphStoryImage"}

GraphNodes ==
  {[__typename |-> t, display_resources |-> d] : t \in Typenames, d \in DisplayChoices}

GraphBodies ==
  {[data |-> [shortcode_media |->
       n @@ [edge_sidecar_to_children |-> [edges |-> e],
             taken_at_timestamp |-> 1700000000,
             owner |-> WebUser]]] :
     n \in GraphNodes,
     e \in {[i \in DOMAIN s |-> [node |-> s[i]]] : s \in SeqsUpTo(GraphNodes, MaxItems)}}

\* shortcodes for get_post: up to MaxBody characters, one of them outside the
\* alphabet, alone or after 9 or 10 "A" (so that they end at, or beyond, the
\* 11th character), and "!" at the front of 11 and 12 characters
CodeChars == {"A", "B", "_", "!"}

Pad(n) == [i \in 1..n |-> "A"]

Shortcodes ==
  {Pad(p) \o b : p \in {0, 9, 10}, b \in SeqsUpTo(CodeChars, MaxBody)}
  \cup {<<"!">> \o Pad(10), <<"!">> \o Pad(11)}

Calls ==
  {[op |-> "get_post_v1", shortcode |-> "CuZ1"],
   [op |-> "get_story_v1", story_pk |-> "3100"],
   [op |-> "get_post_a1", shortcode |-> "CuZ1"],
   [op |-> "graphql_request", shortcode |-> "CuZ1"],
   [op |-> "v1_api_request", endpoint |-> <<"users/web_profile_info/">>,
    params |-> << <<"username", "miso">> >>],
   [op |-> "get_story", username |-> "miso", story_pk |-> "3100"],
   [op |-> "get_post_graphql", shortcode |-> "CuZ1"]}
  \cup {[op |-> "get_post", shortcode |-> s] : s \in Shortcodes}

CachesFound(c) ==
  CASE c.op = "get_post_v1" ->
         Primed("/v1/media/by/code", << <<"code", c.shortcode>> >>, V1Posts)
    [] c.op = "get_story_v1" ->
         Primed("/v1/story/by/id", << <<"id", c.story_pk>> >>, V1Stories)
    [] c.op = "get_post_a1" ->
         Primed("/a1/media/by/code", << <<"code", c.shortcode>> >>, A1Bodies)
    [] OTHER -> {<< >>}

OpsInit ==
  /\ pc = "start"
  /\ call \in Calls
  /\ redis \in CachesFound(call)
  /\ served = << >>
  /\ http_log = << >>
  /\ result = NoResult

\* the operation returns or raises r.ret, having issued r.http
Finish(r, response) ==
  /\ pc' = "done"
  /\ http_log' = http_log \o r.http
  /\ result' = [op |-> call.op, ret |-> r.ret,
                response |-> IF r.http = << >> THEN << >> ELSE <<response>>]
  /\ UNCHANGED <<call, served>>

\* the answers drawn for an operation of the aggregator client: the
\* aggregator is asked only when the cache holds nothing, and the answers drawn
\* for a cache that holds the entry are the refusals alone
ApiAnswers(bodies) == IF redis = << >> THEN ApiResponses(bodies) ELSE ApiFailures

GetPostV1 ==
  /\ pc = "start" /\ call.op = "get_post_v1"
  /\ \E response \in ApiAnswers(V1Posts) :
       LET r == get_post_v1(call.shortcode, redis, response)
       IN  redis' = r.redis /\ Finish(r, response)

GetStoryV1 ==
  /\ pc = "start" /\ call.op = "get_story_v1"
  /\ \E response \in ApiAnswers(V1Stories) :
       LET r == get_story_v1(call.story_pk, redis, response)
       IN  redis' = r.redis /\ Finish(r, response)

GetPostA1 ==
  /\ pc = "start" /\ call.op = "get_post_a1"
  /\ \E response \in ApiAnswers(A1Bodies) :
       LET r == get_post_a1(call.shortcode, redis, response)
       IN  redis' = r.redis /\ Finish(r, response)

GraphqlRequest ==
  /\ pc = "start" /\ call.op = "graphql_request"
  /\ \E response \in DirectResponses(GraphBodies) :
       Finish(graphql_request(call.shortcode, response), response)
  /\ UNCHANGED redis

V1ApiRequest ==
  /\ pc = "start" /\ call.op = "v1_api_request"
  /\ \E response \in DirectResponses(ProfileBodies) :
       Finish(v1_api_request(call.endpoint, call.params, response), response)
  /\ UNCHANGED redis

\* get_story up to `user = await self.get_user(username)`
GetStoryUser ==
  /\ pc = "start" /\ call.op = "get_story"
  /\ \E response \in DirectResponses(ProfileBodies) :
       LET r == get_user(call.username, response)
       IN  IF r.ret.raised # ""
           THEN Finish(r, response)
           ELSE /\ pc' = "reels"
                /\ call' = call @@ [user |-> r.ret.value]
                /\ http_log' = http_log \o r.http
                /\ UNCHANGED <<result, served>>
  /\ UNCHANGED redis

\* get_story from `data = await self.v1_api_request("feed/reels_media/", ...)`
GetStoryReels ==
  /\ pc = "reels"
  /\ \E response \in DirectResponses(ReelBodies) :
       Finish(get_story_reels(call.user, call.story_pk, response), response)
  /\ UNCHANGED redis

GetPost ==
  /\ pc = "start" /\ call.op = "get_post"
  /\ \E response \in DirectResponses(InfoBodies) :
       Finish(get_post(call.shortcode, response), response)
  /\ UNCHANGED redis

GetPostGraphql ==
  /\ pc = "start" /\ call.op = "get_post_graphql"
  /\ \E response \in DirectResponses(GraphBodies) :
       Finish(get_post_graphql(call.shortcode, response), response)
  /\ UNCHANGED redis

OpsNext ==
  \/ GetPostV1 \/ GetStoryV1 \/ GetPostA1
  \/ GraphqlRequest \/ V1ApiRequest
  \/ GetStoryUser \/ GetStoryReels \/ GetPost \/ GetPostGraphql

SpecOps == OpsInit /\ [][OpsNext]_vars

PostOps ==
  {"get_post_v1", "get_story_v1", "get_post_a1", "get_post", "get_story", "get_post_graphql"}

\* an operation has returned a post
ReturnedPost == pc = "done" /\ result.op \in PostOps /\ result.ret.raised = ""

\* a media type that is neither photo, video nor album, where media types are
\* numbers
BadType(resource) == resource.media_type \notin {1, 2, 8}

\* the response a finished get_post or get_post_graphql parsed holds a
\* resource of media type None or of no known media type
BadTypeParsed ==
  /\ pc = "done" /\ result.op \in {"get_post", "get_post_graphql"}
  /\ result.response # << >>
  /\ LET resp == result.response[1]
     IN  /\ resp.json /\ dict_get(resp.data, "status") = "ok"
         /\ IF result.op = "get_post"
            THEN /\ Len(resp.data.items) > 0
                 /\ LET d == resp.data.items[1]
                    IN  \/ BadType(d)
                        \/ /\ d.media_type = 8
                           /\ \E i \in 1..Len(d.carousel_media) : BadType(d.carousel_media[i])
            ELSE LET d == resp.data.data.shortcode_media
                 IN  \/ to_mediatype(d.__typename) = "NONE"
                     \/ /\ to_mediatype(d.__typename) = "ALBUM"
                        /\ \E i \in 1..Len(d.edge_sidecar_to_children.edges) :
                             to_mediatype(d.edge_sidecar_to_children.edges[i].node.__typename)
                               = "NONE"

\* C4 as stated: every entry of a returned post's media is a Photo or a Video,
\* and a resource of media type None or of no known type makes the operation
\* fail.
C4_Original ==
  /\ ReturnedPost =>
       \A i \in 1..Len(result.ret.value.media) :
         result.ret.value.media[i].media_type \in {"PHOTO", "VIDEO"}
  /\ BadTypeParsed => result.ret.raised # ""

\* C5 as stated: the media of a returned post is never empty.
C5_Original == ReturnedPost => Len(result.ret.value.media) > 0

IsDirectRequest == pc = "done" /\ result.op \in {"graphql_request", "v1_api_request"}

\* C6 as stated: a body that is not JSON raises ExpiredCookie; a JSON body whose
\* status is not "ok" raises InstagramError whose message is the message field;
\* only a body of status "ok" is returned.
C6_Original ==
  IsDirectRequest =>
    LET resp == result.response[1]
        d == resp.data
    IN  /\ ~resp.json => result.ret.raised = "ExpiredCookie"
        /\ (resp.json /\ "status" \in DOMAIN d /\ d.status # "ok") =>
             /\ result.ret.raised = "InstagramError"
             /\ "message" \in DOMAIN d => result.ret.value = <<d.message>>
        /\ result.ret.raised = "" =>
             (resp.json /\ dict_get(d, "status") = "ok" /\ result.ret.value = d)

\* C6, amended: as stated, but the message of the InstagramError is the message
\* field for v1_api_request and "[HTTP <status>] " followed by the message
\* field for graphql_request (None standing for a missing field).
C6_DirectFailureModes ==
  IsDirectRequest =>
    LET resp == result.response[1]
        d == resp.data
        message == IF "message" \in DOMAIN d THEN d.message ELSE None
    IN  /\ ~resp.json => result.ret.raised = "ExpiredCookie"
        /\ (resp.json /\ "status" \in DOMAIN d /\ d.status # "ok") =>
             /\ result.ret.raised = "InstagramError"
             /\ result.op = "v1_api_request" => result.ret.value = <<message>>
             /\ result.op = "graphql_request" =>
                  result.ret.value = <<"[HTTP ", ToString(resp.status), "] ", message>>
        /\ result.ret.raised = "" =>
             (resp.json /\ dict_get(d, "status") = "ok" /\ result.ret.value = d)

\* graphql_request got a JSON body of status "fail" with a message, under HTTP 400
C6_Witness ==
  /\ IsDirectRequest
  /\ result.op = "graphql_request"
  /\ result.response[1].json
  /\ result.response[1].status = 400
  /\ dict_get(result.response[1].data, "status") = "fail"
  /\ "message" \in DOMAIN result.response[1].data
  /\ result.ret.raised = "InstagramError"

ProfileRequest(username) ==
  <<"https://i.instagram.com/api/v1/", <<"users/web_profile_info/">>,
    << <<"username", username>> >> >>

ReelsRequest(id) ==
  <<"https://i.instagram.com/api/v1/", <<"feed/reels_media/">>, << <<"reel_ids", id>> >> >>

\* the reel items a finished get_story fetched, when its second request
\* succeeded and the reply holds the user's reel
ReelFetched ==
  /\ pc = "done" /\ call.op = "get_story" /\ Len(http_log) = 2
  /\ result.response[1].json
  /\ dict_get(result.response[1].data, "status") = "ok"
  /\ call.user.id \in DOMAIN result.response[1].data.reels

RECURSIVE Spelled(_, _)
Spelled(s, n) ==
  IF n = 0 THEN 0 ELSE Spelled(s, n - 1) * 64 + IndexOf(ENCODING_CHARS, s[n])

First11(s) == IF Len(s) < 11 THEN Len(s) ELSE 11

BadPrefix(s) == \E i \in 1..First11(s) : ~HasChar(ENCODING_CHARS, s[i])

\* C8: get_post with a character outside the alphabet among the first 11 of
\* the shortcode raises InstagramError("Not a valid Instagram link") and
\* issues no request; otherwise it asks for the media whose id the first 11
\* characters spell, whatever the characters after them.
C8_InvalidShortcode ==
  (pc = "done" /\ result.op = "get_post") =>
    /\ BadPrefix(call.shortcode) =>
         /\ result.ret = Raise("InstagramError", <<"Not a valid Instagram link">>)
         /\ http_log = << >>
    /\ ~BadPrefix(call.shortcode) =>
         http_log = << <<"https://i.instagram.com/api/v1/",
                         <<"media/", Spelled(call.shortcode, First11(call.shortcode)), "/info/">>,
                         << >> >> >>

\* a shortcode of more than 11 characters with an outside character among the
\* first 11 was turned down
C8_Witness ==
  /\ pc = "done" /\ result.op = "get_post"
  /\ Len(call.shortcode) > 11
  /\ BadPrefix(call.shortcode)
  /\ result.ret.raised = "InstagramError"
  /\ http_log = << >>

====
